---- MODULE Spec2Model ----
(***************************************************************************)
(* A model of docshade's app.py: the text normalizer, the OCR fragment     *)
(* builder, the three-tier pattern matcher with its region geometry, the   *)
(* digital text-layer trim and the batch driver.                           *)
(*                                                                         *)
(* Strings are sequences of one-character strings.  Pixel coordinates of   *)
(* fragments are held in 1/Unit pixel so that the per-character width of   *)
(* a split recognition result (width / len(full_text)) is exact; products  *)
(* with 1.15 and 72/300 are exact rationals truncated by int(); on the    *)
(* boxes of QuadAt the double-precision results of app.py are the same.    *)
(***************************************************************************)
EXTENDS Integers, Sequences, FiniteSets, TLC

VARIABLES pc,                 \* position of the running component
          norm_in, norm_out,  \* normalize_text: argument and return value
          is_pdf,             \* process_file: file_ext == 'pdf'
          sensitive_patterns, \* process_file: list of pattern strings
          results,            \* reader.readtext(...) output for the page
          ocr_words,          \* fragment list built from results
          p_idx,              \* index of the pattern the matcher works on
          matches,            \* page.search_for(text) rectangles still to handle
          redact_annots,      \* rectangles queued with page.add_redact_annot
          image_redactions,   \* rectangles collected for a raster target
          spans,              \* history: pattern, tier and fragments of each queued OCR region
          uploaded_files,     \* batch driver: the uploaded files
          f_idx,              \* batch driver: loop position
          processed_results,  \* batch driver: (name, result) pairs
          errors,             \* batch driver: names reported through st.error
          calls               \* history: file contents handed to process_file

vars == <<pc, norm_in, norm_out, is_pdf, sensitive_patterns, results, ocr_words,
          p_idx, matches, redact_annots, image_redactions, spans,
          uploaded_files, f_idx, processed_results, errors, calls>>

(***************************************************************************)
(* Bounds                                                                  *)
(***************************************************************************)
MaxNormLen == 3
MaxResults == 2
MaxPatterns == 1
MaxRects == 2
MaxFiles == 3

(***************************************************************************)
(* Generic helpers                                                         *)
(***************************************************************************)
SeqsUpTo(S, n) == UNION {[1..k -> S] : k \in 0..n}

Range(s) == {s[k] : k \in DOMAIN s}

MinOf(S) == CHOOSE x \in S : \A y \in S : x <= y

MaxOf(S) == CHOOSE x \in S : \A y \in S : x >= y

RECURSIVE Flatten(_)
Flatten(ss) == IF ss = <<>> THEN <<>> ELSE Head(ss) \o Flatten(Tail(ss))

RECURSIVE SumSeq(_)
SumSeq(s) == IF s = <<>> THEN 0 ELSE Head(s) + SumSeq(Tail(s))

\* Python int(): truncation toward zero of the rational num/den, den > 0.
ToInt(num, den) == IF num >= 0 THEN num \div den ELSE -((-num) \div den)

(***************************************************************************)
(* Characters and Python string methods                                    *)
(***************************************************************************)
Letters == {"a", "b", "A", "B"}

Digits == {"1"}

Whitespace == {" ", "\t", "\n", "\r"}

Punctuation == {"-"}

\* str.lower() on one character
LowerChar(c) == CASE c = "A" -> "a" [] c = "B" -> "b" [] OTHER -> c

Lower(text) == [k \in DOMAIN text |-> LowerChar(text[k])]

IsAlnum(c) == c \in Letters \cup Digits

IsSpace(c) == c \in Whitespace

\* str.strip(): remove leading and trailing whitespace
RECURSIVE LStrip(_)
LStrip(text) == IF text # <<>> /\ IsSpace(Head(text)) THEN LStrip(Tail(text)) ELSE text

RECURSIVE RStrip(_)
RStrip(text) ==
    IF text # <<>> /\ IsSpace(text[Len(text)])
    THEN RStrip(SubSeq(text, 1, Len(text) - 1)) ELSE text

Strip(text) == RStrip(LStrip(text))

\* str.split(): the maximal runs of non-whitespace characters, in order
RECURSIVE SplitFrom(_, _, _)
SplitFrom(text, cur, acc) ==
    IF text = <<>>
    THEN (IF cur = <<>> THEN acc ELSE Append(acc, cur))
    ELSE IF IsSpace(Head(text))
         THEN SplitFrom(Tail(text), <<>>, IF cur = <<>> THEN acc ELSE Append(acc, cur))
         ELSE SplitFrom(Tail(text), Append(cur, Head(text)), acc)

Split(text) == SplitFrom(text, <<>>, <<>>)

\* the lowest 0-based index at which sub occurs in text (str.find), -1 if none
Occurrences(sub, text) ==
    {k \in 0..(Len(text) - Len(sub)) : SubSeq(text, k + 1, k + Len(sub)) = sub}

Find(sub, text) == IF Occurrences(sub, text) = {} THEN -1 ELSE MinOf(Occurrences(sub, text))

\* Python's "sub in text"
Contains(sub, text) == Occurrences(sub, text) # {}

(***************************************************************************)
(* normalize_text                                                          *)
(***************************************************************************)
IsSeparatorRemoved(c) == c = " "

normalize_text(text) ==
    LET lowered == Lower(text)
        kept == SelectSeq(lowered, LAMBDA c : IsAlnum(c) \/ IsSpace(c))
    IN SelectSeq(kept, LAMBDA c : ~IsSeparatorRemoved(c))

NormInputs == SeqsUpTo({"a", "A", "1", "-", " ", "\t"}, MaxNormLen)

NormIdle == norm_in = <<>> /\ norm_out = <<>>

OcrIdle ==
    /\ is_pdf = FALSE /\ sensitive_patterns = <<>> /\ results = <<>>
    /\ ocr_words = <<>> /\ p_idx = 0 /\ matches = <<>>
    /\ redact_annots = <<>> /\ image_redactions = <<>> /\ spans = <<>>

BatchIdle ==
    /\ uploaded_files = <<>> /\ f_idx = 0 /\ processed_results = <<>>
    /\ errors = <<>> /\ calls = <<>>

InitNorm ==
    /\ pc = "normalize"
    /\ norm_in \in NormInputs
    /\ norm_out = <<>>
    /\ OcrIdle
    /\ BatchIdle

Normalize ==
    /\ pc = "normalize"
    /\ norm_out' = normalize_text(norm_in)
    /\ pc' = "normalized"
    /\ UNCHANGED <<norm_in, is_pdf, sensitive_patterns, results, ocr_words, p_idx,
                   matches, redact_annots, image_redactions, spans,
                   uploaded_files, f_idx, processed_results, errors, calls>>

NextNorm == Normalize

SpecNorm == InitNorm /\ [][NextNorm]_vars

\* C3: the value normalize_text returns is lower-cased and contains only
\* alphanumeric characters (no whitespace of any kind, no punctuation).
C3_NormalizedIsAlnumOnly ==
    pc = "normalized" =>
        \A k \in DOMAIN norm_out : IsAlnum(norm_out[k]) /\ LowerChar(norm_out[k]) = norm_out[k]

(***************************************************************************)
(* process_file, stage 2: fragment builder (lines 49-84)                   *)
(***************************************************************************)
\* prob > 0.05, with probabilities held in hundredths
Threshold == 5

\* fragment coordinates are held in 1/Unit pixel; every len(full_text) of a
\* multi-word text of OcrTexts divides Unit
Unit == 2 * 3

\* the filter with the threshold itself let through
PassesFilter_AtThreshold(r) == r.prob >= Threshold /\ Strip(r.text) # <<>>

PassesFilter(r) == r.prob > Threshold /\ Strip(r.text) # <<>>

\* the inner loop over the words of a multi-word result (lines 66-76)
RECURSIVE SplitWords(_, _, _, _, _, _)
SplitWords(words, current_pos, char_width, top, height, src) ==
    IF words = <<>> THEN <<>>
    ELSE LET word == Head(words)
             word_width == Len(word) * char_width
         IN <<[text |-> word, left |-> current_pos, top |-> top,
               width |-> word_width, height |-> height, src |-> src]>>
            \o SplitWords(Tail(words), current_pos + word_width + char_width,
                          char_width, top, height, src)

\* the fragments one raw result contributes; src records the result's index
WordsOfResult(r, src) ==
    LET xs == {r.bbox[q][1] : q \in 1..4}
        ys == {r.bbox[q][2] : q \in 1..4}
        left == MinOf(xs) * Unit
        top == MinOf(ys) * Unit
        width == MaxOf(xs) * Unit - left
        height == MaxOf(ys) * Unit - top
        full_text == Strip(r.text)
        words == Split(full_text)
    IN IF PassesFilter(r)
       THEN IF Len(words) > 1
            THEN SplitWords(words, left, width \div Len(full_text), top, height, src)
            ELSE <<[text |-> full_text, left |-> left, top |-> top,
                    width |-> width, height |-> height, src |-> src]>>
       ELSE <<>>

build_fragments(rs) == Flatten([k \in DOMAIN rs |-> WordsOfResult(rs[k], k)])

(***************************************************************************)
(* process_file, stage 2: pattern matcher (lines 96-191)                   *)
(***************************************************************************)
WordNorm(words, i) == normalize_text(words[i].text)

all_ocr_normalized(words) == Flatten([i \in DOMAIN words |-> WordNorm(words, i)])

\* the while condition consuming one fragment too many
KeepConcatenating_Inclusive(j, n, combined_len, pattern_len) ==
    j <= n /\ combined_len <= pattern_len

\* the while condition of line 129
KeepConcatenating(j, n, combined_len, pattern_len) == j <= n /\ combined_len < pattern_len

\* the while loop of lines 129-133; word_list holds fragment indices
RECURSIVE GreedyRun(_, _, _, _, _)
GreedyRun(words, j, combined_text, word_list, pattern_normalized) ==
    IF KeepConcatenating(j, Len(words), Len(combined_text), Len(pattern_normalized))
    THEN GreedyRun(words, j + 1, combined_text \o WordNorm(words, j),
                   Append(word_list, j), pattern_normalized)
    ELSE [combined_text |-> combined_text, word_list |-> word_list]

\* one iteration of the loop of line 103: the span emitted for start index i
MatchAt(words, i, pattern_normalized) ==
    IF WordNorm(words, i) = pattern_normalized
    THEN <<[tier |-> 1, words |-> <<i>>]>>
    ELSE LET run == GreedyRun(words, i + 1, WordNorm(words, i), <<i>>, pattern_normalized)
         IN IF run.combined_text = pattern_normalized /\ Len(run.word_list) > 1
            THEN <<[tier |-> 2, words |-> run.word_list]>>
            ELSE <<>>

\* current_pos when the loop of line 163 reaches fragment i
WordStart(words, i) == SumSeq([k \in 1..(i - 1) |-> Len(WordNorm(words, k))])

\* the overlap test with touching ranges counted as overlapping
Overlaps_Touching(w_start, w_end, pattern_start_idx, pattern_end_idx) ==
    ~(w_end < pattern_start_idx \/ w_start > pattern_end_idx)

\* the overlap test of line 170
Overlaps(w_start, w_end, pattern_start_idx, pattern_end_idx) ==
    ~(w_end <= pattern_start_idx \/ w_start >= pattern_end_idx)

\* str.find of line 157
pattern_start(pattern_normalized, stream) == Find(pattern_normalized, stream)

\* the substring fallback of lines 156-191
Fallback(words, pattern_normalized) ==
    LET stream == all_ocr_normalized(words)
        pattern_start_idx == pattern_start(pattern_normalized, stream)
        pattern_end_idx == pattern_start_idx + Len(pattern_normalized)
        words_to_redact ==
            SelectSeq([i \in DOMAIN words |-> i],
                      LAMBDA i : Overlaps(WordStart(words, i),
                                          WordStart(words, i) + Len(WordNorm(words, i)),
                                          pattern_start_idx, pattern_end_idx))
    IN IF Contains(pattern_normalized, stream) /\ pattern_start_idx >= 0
                                              /\ words_to_redact # <<>>
       THEN <<[tier |-> 3, words |-> words_to_redact]>>
       ELSE <<>>

\* all spans of one pattern, in the order the code queues their regions
SpansOf(words, pattern) ==
    LET pattern_normalized == normalize_text(pattern)
    IN Flatten([i \in DOMAIN words |-> MatchAt(words, i, pattern_normalized)])
       \o Fallback(words, pattern_normalized)

(***************************************************************************)
(* process_file, stage 2: region geometry                                  *)
(***************************************************************************)
\* scale = 72 / 300 for a PDF page, 1.0 for an image (lines 39-44)
ScaleNum(pdf) == IF pdf THEN 72 ELSE 1

ScaleDen(pdf) == IF pdf THEN 300 ELSE 1

\* int(v * scale) for a coordinate v held in 1/Unit pixel
Scaled(v, pdf) == ToInt(v * ScaleNum(pdf), Unit * ScaleDen(pdf))

\* rect_coords of a single-fragment match (lines 111-117): width * 1.15
SingleRect(w, pdf) ==
    <<Scaled(w.left, pdf),
      Scaled(w.top, pdf),
      ToInt((100 * w.left + 115 * w.width) * ScaleNum(pdf), 100 * Unit * ScaleDen(pdf)),
      Scaled(w.top + w.height, pdf)>>

\* rect_coords of a multi-fragment span (lines 137-147 and 176-186)
BoundingRect(words, word_list, pdf) ==
    LET min_left == MinOf({words[i].left : i \in Range(word_list)})
        max_right == MaxOf({words[i].left + words[i].width : i \in Range(word_list)})
        min_top == MinOf({words[i].top : i \in Range(word_list)})
        max_bottom == MaxOf({words[i].top + words[i].height : i \in Range(word_list)})
    IN <<Scaled(min_left, pdf), Scaled(min_top, pdf),
         Scaled(max_right, pdf), Scaled(max_bottom, pdf)>>

RectOf(words, span, pdf) ==
    IF span.tier = 1 THEN SingleRect(words[span.words[1]], pdf)
    ELSE BoundingRect(words, span.words, pdf)

(***************************************************************************)
(* process_file, stage 2 as a state machine over one page                  *)
(***************************************************************************)
OcrTexts == {<<"a">>, <<"B", "a">>, <<" ">>,
             <<"a", " ", "B">>, <<" ", "a", "\t", "-">>}

\* the quadrilateral of the k-th result: boxes 30 px wide laid out left to
\* right 36 px apart, every second one tilted by one pixel
QuadAt(k) ==
    LET x == 36 * (k - 1)
        tilt == k % 2
    IN <<<<x, tilt>>, <<x + 30, 0>>, <<x + 30, 10 + tilt>>, <<x, 10 + 2 * tilt>>>>

Probs == {Threshold, Threshold + 1}

\* the readtext outputs of up to MaxResults results
RawResults ==
    {[k \in DOMAIN tp |-> [bbox |-> QuadAt(k), text |-> tp[k][1], prob |-> tp[k][2]]] :
        tp \in SeqsUpTo(OcrTexts \X Probs, MaxResults)}

Patterns == {<<"a">>, <<"a", " ", "b">>, <<"A", "-", "B", "A">>, <<"-">>}

InitOcr ==
    /\ pc = "ocr"
    /\ NormIdle
    /\ is_pdf \in BOOLEAN
    /\ sensitive_patterns \in SeqsUpTo(Patterns, MaxPatterns)
    /\ results \in RawResults
    /\ ocr_words = <<>> /\ p_idx = 0 /\ matches = <<>>
    /\ redact_annots = <<>> /\ image_redactions = <<>> /\ spans = <<>>
    /\ BatchIdle

\* line 36: without patterns the OCR stage is skipped
SkipOcr ==
    /\ pc = "ocr"
    /\ sensitive_patterns = <<>>
    /\ pc' = "done"
    /\ UNCHANGED <<norm_in, norm_out, is_pdf, sensitive_patterns, results, ocr_words,
                   p_idx, matches, redact_annots, image_redactions, spans,
                   uploaded_files, f_idx, processed_results, errors, calls>>

\* lines 47-84: read the page and build the fragment list
BuildFragments ==
    /\ pc = "ocr"
    /\ sensitive_patterns # <<>>
    /\ ocr_words' = build_fragments(results)
    /\ p_idx' = 1
    /\ pc' = "match"
    /\ UNCHANGED <<norm_in, norm_out, is_pdf, sensitive_patterns, results,
                   matches, redact_annots, image_redactions, spans,
                   uploaded_files, f_idx, processed_results, errors, calls>>

\* one iteration of the loop of line 96: every region of one pattern
MatchPattern ==
    /\ pc = "match"
    /\ LET found == SpansOf(ocr_words, sensitive_patterns[p_idx])
           rects == [k \in DOMAIN found |-> RectOf(ocr_words, found[k], is_pdf)]
       IN /\ spans' = spans \o [k \in DOMAIN found |->
                                  [pat |-> p_idx, tier |-> found[k].tier,
                                   words |-> found[k].words]]
          /\ IF is_pdf
             THEN redact_annots' = redact_annots \o rects /\ UNCHANGED image_redactions
             ELSE image_redactions' = image_redactions \o rects /\ UNCHANGED redact_annots
    /\ IF p_idx < Len(sensitive_patterns)
       THEN p_idx' = p_idx + 1 /\ pc' = "match"
       ELSE p_idx' = p_idx /\ pc' = "done"
    /\ UNCHANGED <<norm_in, norm_out, is_pdf, sensitive_patterns, results, ocr_words,
                   matches, uploaded_files, f_idx, processed_results, errors, calls>>

NextOcr == SkipOcr \/ BuildFragments \/ MatchPattern

SpecOcr == InitOcr /\ [][NextOcr]_vars

\* the regions queued so far, wherever the target keeps them
Regions == IF is_pdf THEN redact_annots ELSE image_redactions

(***************************************************************************)
(* Properties of the OCR stage                                             *)
(***************************************************************************)
\* pattern p has been through the loop of line 96
Processed(p) ==
    /\ p \in DOMAIN sensitive_patterns
    /\ (pc = "done" \/ (pc = "match" /\ p < p_idx))

PatNorm(p) == normalize_text(sensitive_patterns[p])

Stream == all_ocr_normalized(ocr_words)

\* the parallel index: CharOwners[c + 1] is the fragment that contributed
\* character c (0-based) of the stream
CharOwners ==
    Flatten([i \in DOMAIN ocr_words |-> [k \in 1..Len(WordNorm(ocr_words, i)) |-> i]])

Interval(a, b) == [k \in 1..(b - a + 1) |-> a + k - 1]

RightOf(i) == ocr_words[i].left + ocr_words[i].width

BottomOf(i) == ocr_words[i].top + ocr_words[i].height

\* rect is the scaled, truncated bounding box of the fragments S (no padding)
IsBoundingBox(rect, S) ==
    \E a, b, c, d \in S :
        /\ \A i \in S : /\ ocr_words[a].left <= ocr_words[i].left
                        /\ ocr_words[c].top <= ocr_words[i].top
                        /\ RightOf(b) >= RightOf(i)
                        /\ BottomOf(d) >= BottomOf(i)
        /\ rect = <<Scaled(ocr_words[a].left, is_pdf), Scaled(ocr_words[c].top, is_pdf),
                    Scaled(RightOf(b), is_pdf), Scaled(BottomOf(d), is_pdf)>>

C2_AllOccurrencesCovered ==
    \A p \in DOMAIN sensitive_patterns :
        (Processed(p) /\ PatNorm(p) # <<>>) =>
            \A s \in Occurrences(PatNorm(p), Stream) :
                \E k \in DOMAIN spans :
                    /\ spans[k].pat = p
                    /\ {CharOwners[c] : c \in (s + 1)..(s + Len(PatNorm(p)))}
                           \subseteq Range(spans[k].words)

\* the concatenation of the normalized texts of fragments i..j
ConcatRun(i, j) == Flatten([k \in 1..(j - i + 1) |-> WordNorm(ocr_words, i + k - 1)])

\* the last fragment of the run that starts at i: the first one at which the
\* concatenation is at least as long as the pattern, else the last fragment
RunEnd(i, p) ==
    MinOf({e \in i..Len(ocr_words) :
              Len(ConcatRun(i, e)) >= Len(PatNorm(p)) \/ e = Len(ocr_words)})

\* C4: for every pattern and start index i, a consecutive-fragment region
\* for exactly the run i..RunEnd is queued iff the run's concatenation equals
\* the pattern's normalized text and the run has more than one fragment; the
\* regions of the loop are queued in ascending order of start index.
C4_ConsecutiveMatch ==
    \A p \in DOMAIN sensitive_patterns : Processed(p) =>
        /\ \A i \in DOMAIN ocr_words :
               LET e == RunEnd(i, p)
                   ks == {k \in DOMAIN spans : /\ spans[k].pat = p
                                               /\ spans[k].tier = 2
                                               /\ spans[k].words[1] = i}
               IN /\ (ks # {}) <=> (ConcatRun(i, e) = PatNorm(p) /\ e > i)
                  /\ Cardinality(ks) <= 1
                  /\ \A k \in ks : /\ spans[k].words = Interval(i, e)
                                   /\ IsBoundingBox(Regions[k], i..e)
        /\ \A k1, k2 \in DOMAIN spans :
               (/\ k1 < k2
                /\ spans[k1].pat = p /\ spans[k2].pat = p
                /\ spans[k1].tier \in {1, 2} /\ spans[k2].tier \in {1, 2})
                   => spans[k1].words[1] < spans[k2].words[1]

\* C4 witness: one pattern matched by two runs at different start indexes
C4_Witness ==
    /\ pc = "done"
    /\ \E k1, k2 \in DOMAIN spans :
           /\ spans[k1].pat = spans[k2].pat
           /\ spans[k1].tier = 2 /\ spans[k2].tier = 2
           /\ spans[k1].words[1] < spans[k2].words[1]

SpanLeft(k) == MinOf({ocr_words[i].left : i \in Range(spans[k].words)})

SpanRight(k) == MaxOf({RightOf(i) : i \in Range(spans[k].words)})

SpanTop(k) == MinOf({ocr_words[i].top : i \in Range(spans[k].words)})

SpanBottom(k) == MaxOf({BottomOf(i) : i \in Range(spans[k].words)})

\* C5: the right edge of every region, whatever its tier, is the span's
\* right edge widened by 15% of the span's total width.
C5_PaddingOnEverySpan ==
    \A k \in DOMAIN spans :
        SpanRight(k) > SpanLeft(k) =>
            Regions[k][3] = ToInt((100 * SpanLeft(k) + 115 * (SpanRight(k) - SpanLeft(k)))
                                      * ScaleNum(is_pdf),
                                  100 * Unit * ScaleDen(is_pdf))

\* C6: on a PDF page the coordinates of every region are the un-rounded
\* scale-1.0 coordinates multiplied by 72/300.
C6_VectorScaleLinear ==
    is_pdf =>
        \A k \in DOMAIN spans :
            /\ Regions[k][1] * Unit * 300 = SpanLeft(k) * 72
            /\ Regions[k][2] * Unit * 300 = SpanTop(k) * 72
            /\ Regions[k][4] * Unit * 300 = SpanBottom(k) * 72
            /\ Regions[k][3] * Unit * 300 * 100 =
                   (IF spans[k].tier = 1
                    THEN 100 * SpanLeft(k) + 115 * (SpanRight(k) - SpanLeft(k))
                    ELSE 100 * SpanRight(k)) * 72

\* the fragments that come from a raw result the filter must drop
Dropped(k) ==
    results[k].prob <= Threshold \/ \A q \in DOMAIN results[k].text : IsSpace(results[k].text[q])

\* C7: no fragment comes from a raw result with confidence <= threshold or
\* blank text, the kept results' words appear in emission order, and every
\* queued region is made of such fragments only.
C7_ConfidenceFiltering ==
    pc \in {"match", "done"} =>
        /\ \A i \in DOMAIN ocr_words : ~Dropped(ocr_words[i].src)
        /\ \A i, j \in DOMAIN ocr_words : i < j => ocr_words[i].src <= ocr_words[j].src
        /\ sensitive_patterns # <<>> =>
               [i \in DOMAIN ocr_words |-> ocr_words[i].text] =
                   Flatten([k \in DOMAIN results |->
                               IF Dropped(k) THEN <<>> ELSE Split(results[k].text)])
        /\ \A k \in DOMAIN spans : \A i \in Range(spans[k].words) :
               i \in DOMAIN ocr_words /\ ~Dropped(ocr_words[i].src)

\* C7 witness: a result at the threshold whose text equals the pattern was
\* dropped while another result was kept and redacted
C7_Witness ==
    /\ pc = "done"
    /\ spans # <<>>
    /\ \E k \in DOMAIN results :
           /\ results[k].prob = Threshold
           /\ normalize_text(results[k].text) = PatNorm(1)
           /\ \A i \in DOMAIN ocr_words : ocr_words[i].src # k

\* C10: every region contains the scaled bounding box of its span.
C10_RegionContainsSpan ==
    \A k \in DOMAIN spans :
        /\ Regions[k][1] * Unit * ScaleDen(is_pdf) <= SpanLeft(k) * ScaleNum(is_pdf)
        /\ Regions[k][2] * Unit * ScaleDen(is_pdf) <= SpanTop(k) * ScaleNum(is_pdf)
        /\ Regions[k][3] * Unit * ScaleDen(is_pdf) >= SpanRight(k) * ScaleNum(is_pdf)
        /\ Regions[k][4] * Unit * ScaleDen(is_pdf) >= SpanBottom(k) * ScaleNum(is_pdf)

(***************************************************************************)
(* process_file, stage 1: digital text-layer search (lines 25-33)          *)
(* Rectangle coordinates are held in half points.                          *)
(***************************************************************************)
RectUnit == 1 + 1

\* rect.height > 3
TrimThreshold == 3

\* the height test with the threshold itself trimmed
ExceedsTrimThreshold_Inclusive(rect) == rect.y1 - rect.y0 >= TrimThreshold * RectUnit

ExceedsTrimThreshold(rect) == rect.y1 - rect.y0 > TrimThreshold * RectUnit

\* lines 30-32: the rectangle handed to add_redact_annot
Trim(rect) ==
    IF ExceedsTrimThreshold(rect)
    THEN [rect EXCEPT !.y0 = @ + 2 * RectUnit, !.y1 = @ - 1 * RectUnit]
    ELSE rect

\* rectangles page.search_for may return: heights of 1, 2.5, 3, 3.5, 4 and 4.5 points
SearchRects ==
    {[x0 |-> 0, y0 |-> yh[1], x1 |-> 20, y1 |-> yh[1] + yh[2]] :
        yh \in {<<0, 2>>, <<3, 5>>, <<0, 6>>, <<3, 7>>, <<0, 8>>, <<3, 9>>}}

DigitalPatterns == {<<"a">>, <<"a", " ", "b">>, <<"-">>}

InitDigital ==
    /\ pc = "digital"
    /\ NormIdle
    /\ is_pdf \in BOOLEAN
    /\ sensitive_patterns \in SeqsUpTo(DigitalPatterns, MaxPatterns)
    /\ p_idx = 1
    /\ results = <<>> /\ ocr_words = <<>> /\ matches = <<>>
    /\ redact_annots = <<>> /\ image_redactions = <<>> /\ spans = <<>>
    /\ BatchIdle

\* line 25: the stage runs for a PDF with patterns only
SkipDigital ==
    /\ pc = "digital"
    /\ ~(is_pdf /\ sensitive_patterns # <<>>)
    /\ pc' = "digital_done"
    /\ UNCHANGED <<norm_in, norm_out, is_pdf, sensitive_patterns, results, ocr_words,
                   p_idx, matches, redact_annots, image_redactions, spans,
                   uploaded_files, f_idx, processed_results, errors, calls>>

\* one iteration of the loop of line 27: search one pattern and queue a
\* redaction for each rectangle found; matches keeps the rectangles as returned
SearchPattern ==
    /\ pc = "digital"
    /\ is_pdf /\ sensitive_patterns # <<>>
    /\ \E found \in SeqsUpTo(SearchRects, MaxRects) :
           /\ matches' = matches \o found
           /\ redact_annots' = redact_annots \o [k \in DOMAIN found |-> Trim(found[k])]
    /\ IF p_idx < Len(sensitive_patterns)
       THEN p_idx' = p_idx + 1 /\ pc' = "digital"
       ELSE p_idx' = p_idx /\ pc' = "digital_done"
    /\ UNCHANGED <<norm_in, norm_out, is_pdf, sensitive_patterns, results, ocr_words,
                   image_redactions, spans,
                   uploaded_files, f_idx, processed_results, errors, calls>>

NextDigital == SkipDigital \/ SearchPattern

SpecDigital == InitDigital /\ [][NextDigital]_vars

\* C8: one redaction is queued per search rectangle; a rectangle higher than
\* 3 points loses 2 points at the top and 1 at the bottom and keeps a positive
\* height and its x range, any other rectangle is queued unchanged.
C8_DigitalTrim ==
    /\ Len(redact_annots) = Len(matches)
    /\ \A k \in DOMAIN matches :
           LET r == matches[k]
               q == redact_annots[k]
           IN /\ q.x0 = r.x0 /\ q.x1 = r.x1
              /\ IF r.y1 - r.y0 > 3 * RectUnit
                 THEN /\ q.y0 = r.y0 + 2 * RectUnit
                      /\ q.y1 = r.y1 - RectUnit
                      /\ (q.y1 - q.y0) = (r.y1 - r.y0) - 3 * RectUnit
                      /\ q.y1 - q.y0 > 0
                 ELSE q = r

\* C8 witness: a rectangle just above the threshold and one at the threshold
\* were both queued
C8_Witness ==
    /\ pc = "digital_done"
    /\ \E k \in DOMAIN matches : matches[k].y1 - matches[k].y0 = 3 * RectUnit + 1
    /\ \E k \in DOMAIN matches : matches[k].y1 - matches[k].y0 = 3 * RectUnit

(***************************************************************************)
(* Batch driver (lines 251-276).  File sizes are held in MiB.              *)
(***************************************************************************)
\* 10 * 1024 * 1024 bytes
SizeLimit == 10

Files == [name : {"a.pdf", "b.png"}, size : {1, 6}]

TotalSize(files) == SumSeq([k \in DOMAIN files |-> files[k].size])

InitBatch ==
    /\ pc = "button"
    /\ NormIdle
    /\ OcrIdle
    /\ uploaded_files \in SeqsUpTo(Files, MaxFiles)
    /\ f_idx = 0
    /\ processed_results = <<>> /\ errors = <<>> /\ calls = <<>>

\* lines 251-258: the button handler up to the loop
Click ==
    /\ pc = "button"
    /\ IF uploaded_files = <<>>
       THEN pc' = "warned" /\ f_idx' = f_idx
       ELSE IF TotalSize(uploaded_files) > SizeLimit
            THEN pc' = "too_large" /\ f_idx' = f_idx
            ELSE pc' = "loop" /\ f_idx' = 1
    /\ processed_results' = <<>>
    /\ UNCHANGED <<norm_in, norm_out, is_pdf, sensitive_patterns, results, ocr_words,
                   p_idx, matches, redact_annots, image_redactions, spans,
                   uploaded_files, errors, calls>>

\* where the loop of line 261 goes after the file at f_idx
AfterFile == IF f_idx < Len(uploaded_files) THEN "loop" ELSE "package"

\* lines 263-264: process_file returns; res is identified by the file it was made from
ProcessReturns ==
    /\ pc = "loop"
    /\ calls' = Append(calls, f_idx)
    /\ processed_results' =
           Append(processed_results, [name |-> uploaded_files[f_idx].name, res |-> f_idx])
    /\ f_idx' = f_idx + 1
    /\ pc' = AfterFile
    /\ UNCHANGED <<norm_in, norm_out, is_pdf, sensitive_patterns, results, ocr_words,
                   p_idx, matches, redact_annots, image_redactions, spans,
                   uploaded_files, errors>>

\* the handler leaving the loop at the first exception
ProcessRaises_Aborts ==
    /\ pc = "loop"
    /\ calls' = Append(calls, f_idx)
    /\ errors' = Append(errors, [name |-> uploaded_files[f_idx].name, file |-> f_idx])
    /\ f_idx' = f_idx + 1
    /\ pc' = "package"
    /\ UNCHANGED <<norm_in, norm_out, is_pdf, sensitive_patterns, results, ocr_words,
                   p_idx, matches, redact_annots, image_redactions, spans,
                   uploaded_files, processed_results>>

\* lines 263, 265-266: process_file raises an Exception, which is reported
ProcessRaises ==
    /\ pc = "loop"
    /\ calls' = Append(calls, f_idx)
    /\ errors' = Append(errors, [name |-> uploaded_files[f_idx].name, file |-> f_idx])
    /\ f_idx' = f_idx + 1
    /\ pc' = AfterFile
    /\ UNCHANGED <<norm_in, norm_out, is_pdf, sensitive_patterns, results, ocr_words,
                   p_idx, matches, redact_annots, image_redactions, spans,
                   uploaded_files, processed_results>>

\* lines 268-276: offer the single file, the zip archive, or nothing
Package ==
    /\ pc = "package"
    /\ pc' = IF processed_results = <<>> THEN "nothing"
             ELSE IF Len(processed_results) = 1 THEN "download_one" ELSE "download_zip"
    /\ UNCHANGED <<norm_in, norm_out, is_pdf, sensitive_patterns, results, ocr_words,
                   p_idx, matches, redact_annots, image_redactions, spans,
                   uploaded_files, f_idx, processed_results, errors, calls>>

NextBatch == Click \/ ProcessReturns \/ ProcessRaises \/ Package

SpecBatch == InitBatch /\ [][NextBatch]_vars

BatchFinished == pc \in {"package", "nothing", "download_one", "download_zip"}

\* C9: a file whose processing raises is reported and the loop goes on: every
\* file is handed to process_file in upload order, and the collected results
\* are exactly the files that did not raise, in upload order.
C9_BatchErrorIsolation ==
    /\ pc = "loop" => calls = Interval(1, f_idx - 1)
    /\ BatchFinished => calls = Interval(1, Len(uploaded_files))
    /\ \A k \in DOMAIN processed_results :
           /\ processed_results[k].res \in Range(calls)
           /\ processed_results[k].name = uploaded_files[processed_results[k].res].name
    /\ \A j, k \in DOMAIN processed_results :
           j < k => processed_results[j].res < processed_results[k].res
    /\ \A k \in DOMAIN errors :
           errors[k].name = uploaded_files[errors[k].file].name
    /\ \A f \in Range(calls) :
           (\E k \in DOMAIN errors : errors[k].file = f)
               <=> ~(\E k \in DOMAIN processed_results : processed_results[k].res = f)

\* C9 witness: a file failed and a later file was still processed and collected
C9_Witness ==
    /\ BatchFinished
    /\ \E e \in DOMAIN errors : \E k \in DOMAIN processed_results :
           processed_results[k].res > errors[e].file

====
